---- MODULE Spec2Model ----
(***************************************************************************)
(* Adaptive Penalty Method (Barbosa & Lemonge 2003), as implemented by    *)
(* the C++ class apm::AdaptivePenaltyMethod (AdaptivePenaltyMethod.cpp)   *)
(* and by the C functions of apm.c.                                       *)
(*                                                                         *)
(* A C double is modelled as a pair <<n, d>> of integers:                  *)
(*   d > 0          the rational n/d in lowest terms,                      *)
(*   <<1, 0>>       +infinity,  <<-1, 0>>  -infinity,                      *)
(*   <<0, 0>>       NaN,                                                   *)
(* with the IEEE-754 rules for the special values (x/0, inf*0, NaN         *)
(* propagation, comparisons with NaN false).  Rounding and overflow of     *)
(* finite values are not modelled: finite arithmetic is exact.             *)
(***************************************************************************)
EXTENDS Integers, Sequences, FiniteSets, TLC

\* ------------------------------------------------------------------ bounds
\* Largest violation matrix: populationSize * numberOfConstraints <= MaxCells,
\* populationSize <= MaxCells, numberOfConstraints <= MaxCells.
MaxCells == 3

\* ----------------------------------------------------------- double values
Abs(n) == IF n < 0 THEN -n ELSE n

RECURSIVE Gcd(_, _)
Gcd(a, b) == IF b = 0 THEN a ELSE Gcd(b, a % b)

NaN == <<0, 0>>
PosInf == <<1, 0>>
NegInf == <<-1, 0>>

\* The double n/d (d # 0), in lowest terms with a positive denominator.
Rat(n, d) ==
    LET g == Gcd(Abs(n), Abs(d))
        s == IF d < 0 THEN -1 ELSE 1
    IN  <<(s * n) \div g, (s * d) \div g>>

Num(n) == <<n, 1>>
Zero == Num(0)

IsNaN(x) == x = NaN
IsInf(x) == x[2] = 0 /\ x[1] # 0
Sign(x) == IF x[1] > 0 THEN 1 ELSE IF x[1] < 0 THEN -1 ELSE 0

\* a + b
DAdd(a, b) ==
    IF IsNaN(a) \/ IsNaN(b) THEN NaN
    ELSE IF IsInf(a) /\ IsInf(b) THEN (IF a = b THEN a ELSE NaN)
    ELSE IF IsInf(a) THEN a
    ELSE IF IsInf(b) THEN b
    ELSE Rat(a[1] * b[2] + b[1] * a[2], a[2] * b[2])

\* -a
DNeg(a) == <<-a[1], a[2]>>

\* a * b
DMul(a, b) ==
    IF IsNaN(a) \/ IsNaN(b) THEN NaN
    ELSE IF IsInf(a) \/ IsInf(b)
         THEN (IF Sign(a) * Sign(b) = 0 THEN NaN
               ELSE IF Sign(a) * Sign(b) > 0 THEN PosInf ELSE NegInf)
    ELSE Rat(a[1] * b[1], a[2] * b[2])

\* a / b; a zero divisor is +0 wherever the code divides (a sum of squares,
\* a population size)
DDiv(a, b) ==
    IF IsNaN(a) \/ IsNaN(b) THEN NaN
    ELSE IF IsInf(a) THEN (IF IsInf(b) THEN NaN
                           ELSE IF Sign(a) * Sign(b) < 0 THEN DNeg(a) ELSE a)
    ELSE IF IsInf(b) THEN Zero
    ELSE IF b[1] = 0 THEN (IF a[1] = 0 THEN NaN
                           ELSE IF a[1] > 0 THEN PosInf ELSE NegInf)
    ELSE Rat(a[1] * b[2], a[2] * b[1])

\* a > b (false when either is NaN)
DGt(a, b) ==
    IF IsNaN(a) \/ IsNaN(b) THEN FALSE
    ELSE IF IsInf(a) \/ IsInf(b)
         THEN (IF a = b THEN FALSE
               ELSE IF a = PosInf \/ b = NegInf THEN TRUE ELSE FALSE)
    ELSE a[1] * b[2] > b[1] * a[2]

\* a < b
DLt(a, b) == DGt(b, a)

\* a >= b
DGe(a, b) == DGt(a, b) \/ (~IsNaN(a) /\ a = b)

\* ------------------------------------------------------------ input domains
\* Objective-function values the caller's evaluation may produce.
ObjectiveValues == {Num(-20), Num(10)}

\* Constraint-violation values: satisfied with slack, exactly satisfied,
\* violated.
ViolationValues == {Num(-3), Num(0), Num(5)}

\* Entries of a coefficient array the caller supplies without calibrating.
CoefficientValues == {Num(-2), Num(2)}

\* Contents of memory nobody has written yet (new double[n]).
GarbageValues == {Num(-7), Num(3)}

\* Values of the caller's average variable before apm.c's calibration wrote it.
AverageValues == {Num(7)}

\* --------------------------------------------------------------- the state
VARIABLES
    numberOfConstraints,             \* AdaptivePenaltyMethod::numberOfConstraints
    sumViolation,                    \* AdaptivePenaltyMethod::sumViolation
    averageObjectiveFunctionValues,  \* AdaptivePenaltyMethod::averageObjectiveFunctionValues
    populationSize,                  \* the caller's population: its size,
    objectiveFunctionValues,         \*   its objective values [1..P]
    constraintViolationValues,       \*   and its violation matrix [1..P][1..C]
    penalizationCoefficients,        \* the caller's coefficient array [1..C]
    callerAverage,                   \* the caller's double that apm.c's calibration writes
    call                             \* the most recent call and what it returned

vars == <<numberOfConstraints, sumViolation, averageObjectiveFunctionValues,
          populationSize, objectiveFunctionValues, constraintViolationValues,
          penalizationCoefficients, callerAverage, call>>

\* ------------------------- AdaptivePenaltyMethod.cpp: the calibration method
\* for( i=0; i < populationSize; i++ ) sumObjectiveFunction += objectiveFunctionValues[ i ];
RECURSIVE SumObjectiveFunction(_, _)
SumObjectiveFunction(obj, n) ==
    IF n = 0 THEN Zero ELSE DAdd(SumObjectiveFunction(obj, n - 1), obj[n])

\* A calibration that forgets to take the absolute value of the sum.
SignedValue(s) == s

\* if ( sumObjectiveFunction < 0 ) sumObjectiveFunction = -sumObjectiveFunction;
AbsoluteValue(s) == IF DLt(s, Zero) THEN DNeg(s) ELSE s

\* A calibration that forgets to zero sumViolation[ l ] before accumulating.
KeepSumViolation(before) == before

\* this->sumViolation[ l ] = 0; the value the field holds before the loop over
\* the candidates, whatever it held before the call
ResetSumViolation(before) == Zero

\* for( i=0; i < populationSize; i++ ) this->sumViolation[ l ] += constraintViolationValues[ i ][ l ];
\* from the value `start` of the field
RECURSIVE SumViolationOf(_, _, _, _)
SumViolationOf(start, viol, l, n) ==
    IF n = 0 THEN start
    ELSE DAdd(SumViolationOf(start, viol, l, n - 1), viol[n][l])

\* denominator = 0; then, for each l < c:
\* denominator += this->sumViolation[ l ] * this->sumViolation[ l ];
RECURSIVE Denominator(_, _)
Denominator(sv, c) ==
    IF c = 0 THEN Zero ELSE DAdd(Denominator(sv, c - 1), DMul(sv[c], sv[c]))

\* penalizationCoefficients[ j ] = ( sumObjectiveFunction / denominator ) * this->sumViolation[ j ];
PenalizationCoefficient(sumObjectiveFunction, denominator, sv, j) ==
    DMul(DDiv(sumObjectiveFunction, denominator), sv[j])

\* AdaptivePenaltyMethod::calculatePenalizationCoefficients on an instance of c
\* constraints whose sumViolation array holds `held`: what it writes to the
\* instance (averageObjectiveFunctionValues, sumViolation) and to the caller's
\* coefficient array.
calculatePenalizationCoefficients(held, c, p, obj, viol) ==
    LET sumObjectiveFunction == AbsoluteValue(SumObjectiveFunction(obj, p))
        sv == [l \in 1..c |->
                  SumViolationOf(ResetSumViolation(held[l]), viol, l, p)]
        denominator == Denominator(sv, c)
    IN  [average |-> DDiv(sumObjectiveFunction, Num(p)),
         sumViolation |-> sv,
         coefficients |-> [j \in 1..c |->
             PenalizationCoefficient(sumObjectiveFunction, denominator, sv, j)]]

\* ----------------------------- AdaptivePenaltyMethod.cpp: the fitness methods
\* A batch loop that takes a violation value of exactly 0 for a violation.
RECURSIVE BatchConstraintLoopNonNegative(_, _, _)
BatchConstraintLoopNonNegative(row, coef, c) ==
    IF c = 0 THEN [infeasible |-> FALSE, penalization |-> Zero]
    ELSE LET before == BatchConstraintLoopNonNegative(row, coef, c - 1)
         IN  [infeasible |-> before.infeasible \/ ~DLt(row[c], Zero),
              penalization |-> DAdd(before.penalization, DMul(coef[c], row[c]))]

\* The batch overload's loop over the constraints of one candidate:
\*   infeasible |= constraintViolationValues[ i ][ j ] > 0;
\*   penalization += penalizationCoefficients[ j ] * constraintViolationValues[ i ][ j ];
RECURSIVE BatchConstraintLoop(_, _, _)
BatchConstraintLoop(row, coef, c) ==
    IF c = 0 THEN [infeasible |-> FALSE, penalization |-> Zero]
    ELSE LET before == BatchConstraintLoop(row, coef, c - 1)
         IN  [infeasible |-> before.infeasible \/ DGt(row[c], Zero),
              penalization |-> DAdd(before.penalization, DMul(coef[c], row[c]))]

\* fitnessValues[ i ] = infeasible ?
\*   ( objectiveFunctionValues[ i ] > this->averageObjectiveFunctionValues ?
\*        objectiveFunctionValues[ i ] + penalization :
\*        this->averageObjectiveFunctionValues + penalization ) :
\*   objectiveFunctionValues[ i ];
BatchFitnessValue(c, average, objective, row, coef) ==
    LET after == BatchConstraintLoop(row, coef, c)
    IN  IF after.infeasible
        THEN (IF DGt(objective, average)
              THEN DAdd(objective, after.penalization)
              ELSE DAdd(average, after.penalization))
        ELSE objective

\* AdaptivePenaltyMethod::calculateFitness, the batch overload, on an instance
\* of c constraints whose cached average is `average`: the fitnessValues array.
calculateFitnessBatch(c, average, p, obj, viol, coef) ==
    [i \in 1..p |-> BatchFitnessValue(c, average, obj[i], viol[i], coef)]

\* The single-candidate overload's loop over the constraints:
\*   infeasible |= constraintViolationValues[ j ] > 0;
\*   penalization += penalizationCoefficients[ j ] * constraintViolationValues[ j ];
RECURSIVE ConstraintLoop(_, _, _)
ConstraintLoop(row, coef, c) ==
    IF c = 0 THEN [infeasible |-> FALSE, penalization |-> Zero]
    ELSE LET before == ConstraintLoop(row, coef, c - 1)
         IN  [infeasible |-> before.infeasible \/ DGt(row[c], Zero),
              penalization |-> DAdd(before.penalization, DMul(coef[c], row[c]))]

\* A single-candidate overload that does not floor the objective at the average.
calculateFitnessUnfloored(c, average, objective, row, coef) ==
    LET after == ConstraintLoop(row, coef, c)
    IN  IF after.infeasible THEN DAdd(objective, after.penalization)
        ELSE objective

\* AdaptivePenaltyMethod::calculateFitness, the single-candidate overload: the
\* value it returns.
calculateFitness(c, average, objective, row, coef) ==
    LET after == ConstraintLoop(row, coef, c)
    IN  IF after.infeasible
        THEN (IF DGt(objective, average)
              THEN DAdd(objective, after.penalization)
              ELSE DAdd(average, after.penalization))
        ELSE objective

\* ------------------------------------------------------------------- apm.c
\* for (i = 0; i < populationSize; i++) sumObjectiveFunction += objectiveFunctionValues[ i ];
RECURSIVE apm_SumObjectiveFunction(_, _)
apm_SumObjectiveFunction(obj, n) ==
    IF n = 0 THEN Zero ELSE DAdd(apm_SumObjectiveFunction(obj, n - 1), obj[n])

\* sumViolation[ l ] = 0;
\* for (i = 0; i < populationSize; i++) sumViolation[ l ] += constraintViolationValues[ i ][ l ];
RECURSIVE apm_SumViolationOf(_, _, _)
apm_SumViolationOf(viol, l, n) ==
    IF n = 0 THEN Zero ELSE DAdd(apm_SumViolationOf(viol, l, n - 1), viol[n][l])

\* denominator += sumViolation[ l ] * sumViolation[ l ];
RECURSIVE apm_Denominator(_, _)
apm_Denominator(sv, c) ==
    IF c = 0 THEN Zero ELSE DAdd(apm_Denominator(sv, c - 1), DMul(sv[c], sv[c]))

\* calculatePenalizationCoefficients of apm.c: what it writes through
\* penalizationCoefficients and averageObjectiveFunctionValues (its sumViolation
\* is a local array, freed before it returns).
apm_calculatePenalizationCoefficients(p, obj, viol, c) ==
    LET s == apm_SumObjectiveFunction(obj, p)
        sumObjectiveFunction == IF DLt(s, Zero) THEN DNeg(s) ELSE s
        sv == [l \in 1..c |-> apm_SumViolationOf(viol, l, p)]
        denominator == apm_Denominator(sv, c)
    IN  [average |-> DDiv(sumObjectiveFunction, Num(p)),
         coefficients |-> [j \in 1..c |->
             DMul(DDiv(sumObjectiveFunction, denominator), sv[j])]]

\* calculateAllFitness's loop over the constraints of one candidate.
RECURSIVE apm_AllConstraintLoop(_, _, _)
apm_AllConstraintLoop(row, coef, c) ==
    IF c = 0 THEN [infeasible |-> FALSE, penalization |-> Zero]
    ELSE LET before == apm_AllConstraintLoop(row, coef, c - 1)
         IN  [infeasible |-> before.infeasible \/ DGt(row[c], Zero),
              penalization |-> DAdd(before.penalization, DMul(coef[c], row[c]))]

\* calculateAllFitness of apm.c: the fitnessValues array.
apm_calculateAllFitness(p, obj, viol, c, coef, average) ==
    [i \in 1..p |->
        LET after == apm_AllConstraintLoop(viol[i], coef, c)
        IN  IF after.infeasible
            THEN (IF DGt(obj[i], average)
                  THEN DAdd(obj[i], after.penalization)
                  ELSE DAdd(average, after.penalization))
            ELSE obj[i]]

\* calculateFitness's loop over the constraints.
RECURSIVE apm_ConstraintLoop(_, _, _)
apm_ConstraintLoop(row, coef, c) ==
    IF c = 0 THEN [infeasible |-> FALSE, penalization |-> Zero]
    ELSE LET before == apm_ConstraintLoop(row, coef, c - 1)
         IN  [infeasible |-> before.infeasible \/ DGt(row[c], Zero),
              penalization |-> DAdd(before.penalization, DMul(coef[c], row[c]))]

\* calculateFitness of apm.c: the value it returns.
apm_calculateFitness(objective, row, c, coef, average) ==
    LET after == apm_ConstraintLoop(row, coef, c)
    IN  IF after.infeasible
        THEN (IF DGt(objective, average)
              THEN DAdd(objective, after.penalization)
              ELSE DAdd(average, after.penalization))
        ELSE objective

\* ------------------------------------------------------------- the program
\* `call` records the most recent call: which one, the candidate it was about
\* (single-candidate calls), what it returned (fitnessValues, fitness), and
\* what the instance's fields held when the call began.
Returned(op, fitnessValues, fitness, candidate) ==
    [op |-> op, fitnessValues |-> fitnessValues, fitness |-> fitness,
     candidate |-> candidate,
     before |-> [sumViolation |-> sumViolation,
                 average |-> averageObjectiveFunctionValues]]

\* The shapes of the caller's data: populationSize candidates (at least one, as
\* both calibrations divide by populationSize) and c constraints.
Shapes ==
    {sh \in (0..MaxCells) \X (1..MaxCells) : sh[1] * sh[2] <= MaxCells}

\* AdaptivePenaltyMethod::AdaptivePenaltyMethod( numberOfConstraints ): the
\* instance right after construction, with the data the caller holds.
Init ==
    \E sh \in Shapes :
        /\ numberOfConstraints = sh[1]
        /\ populationSize = sh[2]
        /\ sumViolation \in {[l \in 1..sh[1] |-> g] : g \in GarbageValues}
        /\ averageObjectiveFunctionValues = Zero
        /\ objectiveFunctionValues \in [1..sh[2] -> ObjectiveValues]
        /\ constraintViolationValues \in [1..sh[2] -> [1..sh[1] -> ViolationValues]]
        /\ penalizationCoefficients \in [1..sh[1] -> CoefficientValues]
        /\ callerAverage \in AverageValues
        /\ call = Returned("new", <<>>, Zero, 0)

\* apm.calculatePenalizationCoefficients( populationSize, objectiveFunctionValues,
\*     constraintViolationValues, penalizationCoefficients )
CalculatePenalizationCoefficients ==
    LET r == calculatePenalizationCoefficients(sumViolation, numberOfConstraints,
                 populationSize, objectiveFunctionValues,
                 constraintViolationValues)
    IN  /\ averageObjectiveFunctionValues' = r.average
        /\ sumViolation' = r.sumViolation
        /\ penalizationCoefficients' = r.coefficients
        /\ call' = Returned("calculatePenalizationCoefficients", <<>>, Zero, 0)
        /\ UNCHANGED <<numberOfConstraints, populationSize, objectiveFunctionValues,
                       constraintViolationValues, callerAverage>>

\* A batch overload that leaves the floor it used for its last candidate in
\* the instance's cached average.
CalculateFitnessBatchCaching ==
    /\ call' = Returned("calculateFitnessBatch",
                   calculateFitnessBatch(numberOfConstraints,
                       averageObjectiveFunctionValues, populationSize,
                       objectiveFunctionValues, constraintViolationValues,
                       penalizationCoefficients),
                   Zero, 0)
    /\ averageObjectiveFunctionValues' =
           IF DGt(objectiveFunctionValues[populationSize],
                  averageObjectiveFunctionValues)
           THEN objectiveFunctionValues[populationSize]
           ELSE averageObjectiveFunctionValues
    /\ UNCHANGED <<numberOfConstraints, sumViolation, populationSize,
                   objectiveFunctionValues, constraintViolationValues,
                   penalizationCoefficients, callerAverage>>

\* apm.calculateFitness( fitnessValues, populationSize, objectiveFunctionValues,
\*     constraintViolationValues, penalizationCoefficients )
CalculateFitnessBatch ==
    /\ call' = Returned("calculateFitnessBatch",
                   calculateFitnessBatch(numberOfConstraints,
                       averageObjectiveFunctionValues, populationSize,
                       objectiveFunctionValues, constraintViolationValues,
                       penalizationCoefficients),
                   Zero, 0)
    /\ UNCHANGED <<numberOfConstraints, sumViolation, averageObjectiveFunctionValues,
                   populationSize, objectiveFunctionValues,
                   constraintViolationValues, penalizationCoefficients,
                   callerAverage>>

\* apm.calculateFitness( objectiveFunctionValues[ i ], constraintViolationValues[ i ],
\*     penalizationCoefficients ), for a candidate i of the caller's population
CalculateFitness ==
    \E i \in 1..populationSize :
        /\ call' = Returned("calculateFitness", <<>>,
                       calculateFitness(numberOfConstraints,
                           averageObjectiveFunctionValues,
                           objectiveFunctionValues[i],
                           constraintViolationValues[i],
                           penalizationCoefficients),
                       i)
        /\ UNCHANGED <<numberOfConstraints, sumViolation,
                       averageObjectiveFunctionValues, populationSize,
                       objectiveFunctionValues, constraintViolationValues,
                       penalizationCoefficients, callerAverage>>

\* apm.c: calculatePenalizationCoefficients( populationSize, objectiveFunctionValues,
\*     constraintViolationValues, numberOfConstraints, penalizationCoefficients,
\*     &callerAverage )
ApmCalculatePenalizationCoefficients ==
    LET r == apm_calculatePenalizationCoefficients(populationSize,
                 objectiveFunctionValues, constraintViolationValues,
                 numberOfConstraints)
    IN  /\ callerAverage' = r.average
        /\ penalizationCoefficients' = r.coefficients
        /\ call' = Returned("apm_calculatePenalizationCoefficients", <<>>, Zero, 0)
        /\ UNCHANGED <<numberOfConstraints, sumViolation,
                       averageObjectiveFunctionValues, populationSize,
                       objectiveFunctionValues, constraintViolationValues>>

\* apm.c: calculateAllFitness( fitnessValues, populationSize, objectiveFunctionValues,
\*     constraintViolationValues, numberOfConstraints, penalizationCoefficients,
\*     callerAverage )
ApmCalculateAllFitness ==
    /\ call' = Returned("apm_calculateAllFitness",
                   apm_calculateAllFitness(populationSize, objectiveFunctionValues,
                       constraintViolationValues, numberOfConstraints,
                       penalizationCoefficients, callerAverage),
                   Zero, 0)
    /\ UNCHANGED <<numberOfConstraints, sumViolation, averageObjectiveFunctionValues,
                   populationSize, objectiveFunctionValues,
                   constraintViolationValues, penalizationCoefficients,
                   callerAverage>>

\* apm.c: calculateFitness( objectiveFunctionValues[ i ], constraintViolationValues[ i ],
\*     numberOfConstraints, penalizationCoefficients, callerAverage )
ApmCalculateFitness ==
    \E i \in 1..populationSize :
        /\ call' = Returned("apm_calculateFitness", <<>>,
                       apm_calculateFitness(objectiveFunctionValues[i],
                           constraintViolationValues[i], numberOfConstraints,
                           penalizationCoefficients, callerAverage),
                       i)
        /\ UNCHANGED <<numberOfConstraints, sumViolation,
                       averageObjectiveFunctionValues, populationSize,
                       objectiveFunctionValues, constraintViolationValues,
                       penalizationCoefficients, callerAverage>>

Next ==
    \/ CalculatePenalizationCoefficients
    \/ CalculateFitnessBatch
    \/ CalculateFitness
    \/ ApmCalculatePenalizationCoefficients
    \/ ApmCalculateAllFitness
    \/ ApmCalculateFitness

Spec == Init /\ [][Next]_vars

\* ------------------------------------------- the caller's next generations
\* Between two calibrations the caller's evaluation function rewrites the
\* population's arrays: one objective value,
WriteObjective ==
    \E i \in 1..populationSize, v \in ObjectiveValues :
        /\ objectiveFunctionValues[i] # v
        /\ objectiveFunctionValues' = [objectiveFunctionValues EXCEPT ![i] = v]
        /\ call' = Returned("write", <<>>, Zero, i)
        /\ UNCHANGED <<numberOfConstraints, sumViolation,
                       averageObjectiveFunctionValues, populationSize,
                       constraintViolationValues, penalizationCoefficients,
                       callerAverage>>

\* or one constraint-violation value.
WriteViolation ==
    \E i \in 1..populationSize, l \in 1..numberOfConstraints, v \in ViolationValues :
        /\ constraintViolationValues[i][l] # v
        /\ constraintViolationValues' =
               [constraintViolationValues EXCEPT ![i][l] = v]
        /\ call' = Returned("write", <<>>, Zero, i)
        /\ UNCHANGED <<numberOfConstraints, sumViolation,
                       averageObjectiveFunctionValues, populationSize,
                       objectiveFunctionValues, penalizationCoefficients,
                       callerAverage>>

\* One AdaptivePenaltyMethod instance calibrated generation after generation.
NextGen ==
    \/ CalculatePenalizationCoefficients
    \/ WriteObjective
    \/ WriteViolation

SpecGen == Init /\ [][NextGen]_vars

\* ------------------------------------------------- what the claims speak of
CalibrationCalls ==
    {"calculatePenalizationCoefficients", "apm_calculatePenalizationCoefficients"}

Candidates == 1..populationSize
Constraints == 1..numberOfConstraints

\* The sum f[1] + ... + f[n] of doubles.
RECURSIVE Sum(_, _)
Sum(f, n) == IF n = 0 THEN Zero ELSE DAdd(Sum(f, n - 1), f[n])

\* max(x, 0) and max(x, y)
Clamp(x) == IF DGt(x, Zero) THEN x ELSE Zero
Max(x, y) == IF DGt(x, y) THEN x ELSE y

\* |sum of all objective values| of the caller's population
SumObjective ==
    LET t == Sum(objectiveFunctionValues, populationSize)
    IN  IF t[1] < 0 THEN DNeg(t) ELSE t

\* sumViolation[l] with only the violated (> 0) values counted
ClampedSumViolation(l) ==
    Sum([i \in Candidates |-> Clamp(constraintViolationValues[i][l])],
        populationSize)

\* the sum over l of ClampedSumViolation(l)^2
ClampedDenominator ==
    Sum([l \in Constraints |->
            DMul(ClampedSumViolation(l), ClampedSumViolation(l))],
        numberOfConstraints)

Violated(i) == {j \in Constraints : DGt(constraintViolationValues[i][j], Zero)}
Feasible(i) == Violated(i) = {}

\* The penalty of candidate i under `coef`, over its violated constraints only.
ViolatedPenalty(i, coef) ==
    Sum([j \in Constraints |->
            IF j \in Violated(i)
            THEN DMul(coef[j], constraintViolationValues[i][j]) ELSE Zero],
        numberOfConstraints)

\* The penalty of candidate i under `coef`, over all its constraints.
WholePenalty(i, coef) ==
    Sum([j \in Constraints |-> DMul(coef[j], constraintViolationValues[i][j])],
        numberOfConstraints)

\* C1: a calibration (of either implementation) on a population some of whose
\* violation values are positive writes, for every constraint j,
\* penalizationCoefficients[j] = (sumObjective / denominator) * sumViolation[j],
\* with sumViolation and denominator taken over the values clamped at zero.
C1_CoefficientsOfClampedSums ==
    (call.op \in CalibrationCalls /\ ClampedDenominator # Zero) =>
        \A j \in Constraints :
            penalizationCoefficients[j] =
                DMul(DDiv(SumObjective, ClampedDenominator), ClampedSumViolation(j))

\* C2: the batch evaluators give a candidate with a violated constraint the
\* fitness max(objective, average) + penalty, the penalty summed over its
\* violated constraints only.
C2_PenaltyOverViolatedOnly ==
    /\ call.op = "calculateFitnessBatch" =>
          \A i \in Candidates : ~Feasible(i) =>
              call.fitnessValues[i] =
                  DAdd(Max(objectiveFunctionValues[i], averageObjectiveFunctionValues),
                       ViolatedPenalty(i, penalizationCoefficients))
    /\ call.op = "apm_calculateAllFitness" =>
          \A i \in Candidates : ~Feasible(i) =>
              call.fitnessValues[i] =
                  DAdd(Max(objectiveFunctionValues[i], callerAverage),
                       ViolatedPenalty(i, penalizationCoefficients))

\* C3: a calibration on a population (at least one constraint) none of whose
\* violation values is positive writes 0 into every coefficient.
C3_ZeroCoefficientsWhenAllSatisfied ==
    (/\ call.op \in CalibrationCalls
     /\ numberOfConstraints >= 1
     /\ \A i \in Candidates : Feasible(i)) =>
        \A j \in Constraints : penalizationCoefficients[j] = Zero

\* What candidate i's fitness must be at the feasibility boundary.
BoundaryFitness(i, fitness) ==
    /\ Feasible(i) => fitness = objectiveFunctionValues[i]
    /\ Cardinality(Violated(i)) = 1 =>
          fitness = DAdd(Max(objectiveFunctionValues[i],
                             averageObjectiveFunctionValues),
                         WholePenalty(i, penalizationCoefficients))

\* C4: for any coefficient array and cached average, both overloads of
\* AdaptivePenaltyMethod::calculateFitness return the raw objective value for a
\* candidate none of whose violation values is positive, and the penalised
\* value (the objective floored at the cached average, plus the accumulated
\* penalization) for a candidate exactly one of whose values is positive.
C4_FeasibilityBoundary ==
    /\ call.op = "calculateFitnessBatch" =>
          \A i \in Candidates : BoundaryFitness(i, call.fitnessValues[i])
    /\ call.op = "calculateFitness" =>
          BoundaryFitness(call.candidate, call.fitness)

\* A batch call over a population holding a candidate that is feasible with
\* slack and a candidate with exactly one violated constraint, the latter
\* floored at the cached average.
C4_Witness ==
    /\ call.op = "calculateFitnessBatch"
    /\ \E i \in Candidates :
          /\ Feasible(i)
          /\ \E j \in Constraints : DLt(constraintViolationValues[i][j], Zero)
          /\ call.fitnessValues[i] = objectiveFunctionValues[i]
    /\ \E i \in Candidates :
          /\ Cardinality(Violated(i)) = 1
          /\ DGt(averageObjectiveFunctionValues, objectiveFunctionValues[i])
          /\ call.fitnessValues[i] # objectiveFunctionValues[i]

\* The coefficient array and `average` are what a calibration on the caller's
\* population produces.
CalibratedOnPopulation(average) ==
    LET r == apm_calculatePenalizationCoefficients(populationSize,
                 objectiveFunctionValues, constraintViolationValues,
                 numberOfConstraints)
    IN  average = r.average /\ penalizationCoefficients = r.coefficients

\* C5: evaluating a population with the coefficients and the average that a
\* calibration on that same population produced gives every infeasible
\* candidate a fitness of at least max(objective, average): at least the
\* average, at least its own objective, the added penalty never negative.
C5_InfeasibleNotBelowAverage ==
    /\ (call.op = "calculateFitnessBatch"
        /\ CalibratedOnPopulation(averageObjectiveFunctionValues)) =>
          \A i \in Candidates : ~Feasible(i) =>
              DGe(call.fitnessValues[i],
                  Max(objectiveFunctionValues[i], averageObjectiveFunctionValues))
    /\ (call.op = "apm_calculateAllFitness"
        /\ CalibratedOnPopulation(callerAverage)) =>
          \A i \in Candidates : ~Feasible(i) =>
              DGe(call.fitnessValues[i],
                  Max(objectiveFunctionValues[i], callerAverage))

\* C6: after a calibration every penalty coefficient is non-negative.
C6_NonNegativeCoefficients ==
    call.op \in CalibrationCalls =>
        \A j \in Constraints : DGe(penalizationCoefficients[j], Zero)

\* What freshly constructed instances (whatever new double[] left in
\* sumViolation) produce from the caller's population.
FreshInstanceResults ==
    {calculatePenalizationCoefficients([l \in Constraints |-> g],
         numberOfConstraints, populationSize, objectiveFunctionValues,
         constraintViolationValues) : g \in GarbageValues}

\* C7: whatever the instance held before (what construction left, or what an
\* earlier calibration on other inputs wrote), after a calibration its cached
\* average and sumViolation and the coefficients written are those a freshly
\* constructed instance produces from the inputs of this call.
C7_OnlyLastCalibrationCounts ==
    call.op = "calculatePenalizationCoefficients" =>
        \A fresh \in FreshInstanceResults :
            /\ averageObjectiveFunctionValues = fresh.average
            /\ sumViolation = fresh.sumViolation
            /\ penalizationCoefficients = fresh.coefficients

\* A calibration that overwrote what an earlier calibration on other inputs
\* had cached: a different average and a different sumViolation, neither
\* being what construction leaves.
C7_Witness ==
    /\ call.op = "calculatePenalizationCoefficients"
    /\ numberOfConstraints >= 1
    /\ call.before.average # Zero
    /\ call.before.average # averageObjectiveFunctionValues
    /\ call.before.sumViolation # sumViolation
    /\ \A l \in Constraints : call.before.sumViolation[l] \notin GarbageValues

\* The scenario's population.
ScenarioInputs ==
    /\ numberOfConstraints = 1
    /\ populationSize = 2
    /\ objectiveFunctionValues = <<Num(10), Num(-20)>>
    /\ constraintViolationValues = <<<<Num(0)>>, <<Num(5)>>>>

\* C8: on objectives [10, -20] and violations [[0], [5]] (one constraint) a
\* calibration yields the average 5 and the coefficients [2], and the batch
\* evaluation with them yields the fitness values [10, 15].
C8_Scenario ==
    ScenarioInputs =>
        /\ call.op = "calculatePenalizationCoefficients" =>
              /\ averageObjectiveFunctionValues = Num(5)
              /\ penalizationCoefficients = <<Num(2)>>
        /\ call.op = "apm_calculatePenalizationCoefficients" =>
              /\ callerAverage = Num(5)
              /\ penalizationCoefficients = <<Num(2)>>
        /\ (/\ call.op = "calculateFitnessBatch"
            /\ averageObjectiveFunctionValues = Num(5)
            /\ penalizationCoefficients = <<Num(2)>>) =>
              call.fitnessValues = <<Num(10), Num(15)>>
        /\ (/\ call.op = "apm_calculateAllFitness"
            /\ callerAverage = Num(5)
            /\ penalizationCoefficients = <<Num(2)>>) =>
              call.fitnessValues = <<Num(10), Num(15)>>

\* The scenario's population evaluated by the batch overload after the
\* instance was calibrated on it.
C8_Witness ==
    /\ ScenarioInputs
    /\ call.op = "calculateFitnessBatch"
    /\ averageObjectiveFunctionValues = Num(5)
    /\ penalizationCoefficients = <<Num(2)>>
    /\ call.fitnessValues = <<Num(10), Num(15)>>

\* C9: every entry i of what a batch evaluator returns is the value the
\* single-candidate evaluator of the same implementation returns for
\* objective i and violation row i under the same coefficients and average,
\* and conversely.
C9_BatchIsSinglePerCandidate ==
    /\ call.op = "calculateFitnessBatch" =>
          \A i \in Candidates :
              call.fitnessValues[i] =
                  calculateFitness(numberOfConstraints,
                      averageObjectiveFunctionValues, objectiveFunctionValues[i],
                      constraintViolationValues[i], penalizationCoefficients)
    /\ call.op = "calculateFitness" =>
          call.fitness =
              calculateFitnessBatch(numberOfConstraints,
                  averageObjectiveFunctionValues, populationSize,
                  objectiveFunctionValues, constraintViolationValues,
                  penalizationCoefficients)[call.candidate]
    /\ call.op = "apm_calculateAllFitness" =>
          \A i \in Candidates :
              call.fitnessValues[i] =
                  apm_calculateFitness(objectiveFunctionValues[i],
                      constraintViolationValues[i], numberOfConstraints,
                      penalizationCoefficients, callerAverage)
    /\ call.op = "apm_calculateFitness" =>
          call.fitness =
              apm_calculateAllFitness(populationSize, objectiveFunctionValues,
                  constraintViolationValues, numberOfConstraints,
                  penalizationCoefficients, callerAverage)[call.candidate]

\* A batch call over several candidates, some feasible and some penalised,
\* one of the penalised ones floored at the cached average.
C9_Witness ==
    /\ call.op = "calculateFitnessBatch"
    /\ populationSize >= 2
    /\ \E i \in Candidates : Feasible(i)
    /\ \E i \in Candidates :
          /\ ~Feasible(i)
          /\ DGt(averageObjectiveFunctionValues, objectiveFunctionValues[i])
          /\ call.fitnessValues[i] # objectiveFunctionValues[i]
    /\ \E i, k \in Candidates : call.fitnessValues[i] # call.fitnessValues[k]

\* The calls of the fitness evaluators, as recorded in `call`.
EvaluatorCalls ==
    {"calculateFitnessBatch", "calculateFitness", "apm_calculateAllFitness",
     "apm_calculateFitness"}

\* C10: a call of an evaluator (batch or single-candidate, of either
\* implementation) changes neither the coefficient array, nor the instance's
\* cached average and sumViolation (nor its numberOfConstraints), nor the
\* caller's average, nor the population's size, objective values and
\* violation values: everything a later evaluator call reads is as it was.
C10_EvaluatorsChangeNothing ==
    [][call'.op \in EvaluatorCalls =>
          UNCHANGED <<penalizationCoefficients, averageObjectiveFunctionValues,
                      sumViolation, callerAverage, numberOfConstraints,
                      populationSize, objectiveFunctionValues,
                      constraintViolationValues>>]_vars

\* A single-candidate call for a penalised candidate on an instance calibrated
\* on the population (its cached average no longer the constructor's 0): the
\* instance holds after the call what it held when the call began.
C10_Witness ==
    /\ call.op = "calculateFitness"
    /\ numberOfConstraints >= 1
    /\ CalibratedOnPopulation(averageObjectiveFunctionValues)
    /\ averageObjectiveFunctionValues # Zero
    /\ ~Feasible(call.candidate)
    /\ call.fitness # objectiveFunctionValues[call.candidate]
    /\ call.before.average = averageObjectiveFunctionValues
    /\ call.before.sumViolation = sumViolation

====
